---- MODULE Spec2Model ----
(***************************************************************************)
(* Model of RealtimeASR (src/src/realtime_asr.py): the capture callback,   *)
(* the background recognition loop and the controller operations, as       *)
(* three kinds of threads over the engine's shared fields.                 *)
(*                                                                         *)
(* Audio is scaled down: a capture chunk has ChunkSize samples, the ring   *)
(* holds Capacity samples, the loop needs MinSamples samples.  A sample is *)
(* its global capture index, so order, eviction and loss are observable.   *)
(* Audio levels are in thousandths (1000 is RMS 1.0).                      *)
(***************************************************************************)
EXTENDS Integers, Sequences, FiniteSets, TLC

\* ---- bounds -------------------------------------------------------------
ChunkSize == 2          \* samples per capture callback  (blocksize)
Capacity == 3           \* int(sample_rate * buffer_seconds), scaled
MinSamples == 2         \* int(sample_rate * min_audio_seconds), scaled
MaxChunks == 2          \* chunks the driver delivers in one behaviour
MaxCalls == 3           \* controller calls in one behaviour
MaxSegments == 2        \* segments in the history when the getters are exercised

\* every loop thread a behaviour can start gets a slot: a thread is started by
\* start(), and two start() calls that both start one have a stop() between
\* them; one more slot is for the thread of a session that is already started
Loops == 1..(1 + MaxCalls \div 2)
Texts == {"a", "b"}                 \* non-empty recognizer outputs
Outcomes == Texts \cup {"", "ERR"}  \* "" = empty text, "ERR" = recognizer raised
MaxAmplitude == 1500                \* the largest sample magnitude: louder than 1.0
\* audio_chunk as the driver delivers it: silence, or a loud signal whose
\* samples alternate in sign
Amplitudes == {[i \in 1..ChunkSize |-> 0],
               [i \in 1..ChunkSize |-> IF i % 2 = 1 THEN -MaxAmplitude ELSE MaxAmplitude]}

RECURSIVE SumSquares(_)
\* np.sum(audio_chunk ** 2)
SumSquares(chunk) ==
    IF chunk = <<>> THEN 0 ELSE Head(chunk) * Head(chunk) + SumSquares(Tail(chunk))

\* np.sqrt(np.mean(audio_chunk ** 2)), rounded down to a thousandth
Rms(chunk) ==
    LET mean == SumSquares(chunk) \div Len(chunk)
    IN  CHOOSE r \in 0..MaxAmplitude : r * r <= mean /\ mean < (r + 1) * (r + 1)

Levels == {Rms(chunk) : chunk \in Amplitudes}   \* RMS of a chunk: 0 and 1500
VadThresholds == {0, 10}            \* 0 disables the gate

VARIABLES
    accumulate_mode, vad_threshold, min_samples, \* constructor arguments and the derived minimum
    running, paused, recording, last_text,       \* session state
    buffer, accumulated_audio, accumulated_text, \* SampleBuffer, AccumulationLog, segment history
    lock, stream, process_thread,                \* mutex holder, capture stream, joinable thread handle
    audio_level, is_speech,                      \* level state
    cb_pc, nchunks,                              \* capture callback position, chunks delivered
    ctl_pc, final_text, ctl_audio,               \* controller position and stop_recording locals
    calls_left, ctl_last,                        \* controller calls still allowed, last completed call
    lpc, laudio, ltext,                          \* per loop thread: position, snapshot, text
    notified,                                    \* history: texts given to onResult this session
    last_rec,                                    \* history: the latest streaming recognition of the session
    in_span, span, span_cut,                     \* history: the recording span and the chunks logged in it
    span_from,                                   \* history: the chunks delivered before the span began
    pushed,                                      \* history: the samples pushed since the buffer was last cleared
    forgot,                                      \* history: last_text was reset and no text was recognized since
    fin,                                         \* history: what the current or last stop_recording() call did
    failed,                                      \* history: loop threads whose latest recognizer call raised
    snaps,                                       \* history: the snapshots being processed, oldest first
    got_text, got_segments,                      \* the caller: the results of the last history getters
    drv_pc, was_pressed, ptt_recording,          \* the push-to-talk driver: position, was_pressed, is_recording
    drv_mark,                                    \* the driver: the call budget when it reached its call
    gui_pc, gui_mark,                            \* the window: handler position, call budget at its call
    gui_is_recording, asr_worker,                \* the window: is_recording, asr_worker
    worker_running, status,                      \* the worker's running flag, the status indicator
    tracked                                      \* the histories this specification keeps

config == <<accumulate_mode, vad_threshold, min_samples, tracked>>
session == <<running, paused, recording, last_text>>
stores == <<buffer, accumulated_audio, accumulated_text>>
level == <<audio_level, is_speech>>
cbvars == <<cb_pc, nchunks>>
ctlvars == <<ctl_pc, final_text, ctl_audio, calls_left, ctl_last>>
loopvars == <<lpc, laudio, ltext>>
hist == <<notified, last_rec, in_span, span, span_cut, span_from, pushed, forgot>>
caller == <<got_text, got_segments>>
driver == <<drv_pc, was_pressed, ptt_recording, drv_mark>>
window == <<gui_pc, gui_mark, gui_is_recording, asr_worker, worker_running, status>>
vars == <<config, session, stores, lock, stream, process_thread, level,
          cbvars, ctlvars, loopvars, hist, fin, failed, snaps, caller, driver,
          window>>

\* ---- histories ----------------------------------------------------------

\* The history variables record what happened; no action reads them to decide
\* what the program does.  A specification keeps the histories named in
\* tracked and leaves the others at their initial value, so that a property is
\* checked over the program's states and the histories it speaks of only.
AllTracked == {"notified", "last_rec", "span", "fresh", "pushed", "reset", "fin",
               "failed", "snaps"}

\* the history variable v, belonging to history h, becomes new
Tracks(h, v, new) == v' = IF h \in tracked THEN new ELSE v

\* ---- pure helpers -------------------------------------------------------

\* the samples of the k-th chunk delivered by the driver
ChunkSamples(k) == [i \in 1..ChunkSize |-> (k - 1) * ChunkSize + i]

\* a deque without maxlen: nothing is evicted
Extend_unbounded(buf, chunk) == buf \o chunk

\* a full buffer that keeps its oldest samples and drops what does not fit
Extend_drops_newest(buf, chunk) ==
    LET s == buf \o chunk
    IN  IF Len(s) > Capacity THEN SubSeq(s, 1, Capacity) ELSE s

\* deque(maxlen=Capacity).extend(chunk): append, evicting from the left
Extend(buf, chunk) ==
    LET s == buf \o chunk
    IN  IF Len(s) > Capacity THEN SubSeq(s, Len(s) - Capacity + 1, Len(s)) ELSE s

RECURSIVE Concatenate(_)
\* np.concatenate(chunks)
Concatenate(chunks) ==
    IF chunks = <<>> THEN <<>> ELSE Head(chunks) \o Concatenate(Tail(chunks))

\* the level compared with the threshold also when the threshold is 0
Vad_compares(rms) == rms > vad_threshold

\* is_speech as _audio_callback computes it from the chunk's RMS
Vad(rms) == IF vad_threshold > 0 THEN rms > vad_threshold ELSE TRUE

AliveLoops == {i \in Loops : lpc[i] # "dead"}
FreeSlot == CHOOSE i \in Loops : lpc[i] = "dead" /\ \A j \in Loops : lpc[j] = "dead" => i <= j

\* the caller holds no list returned by get_accumulated_segments()
NoList == [held |-> FALSE, list |-> <<>>, copy |-> TRUE]

RECURSIVE Join(_)
\* " ".join(segments): the segments as words, a " " between neighbours
Join(segments) ==
    IF segments = <<>> THEN <<>>
    ELSE IF Len(segments) = 1 THEN <<segments[1]>>
    ELSE <<segments[1], " ">> \o Join(Tail(segments))

\* the level returned as it is, not clamped
get_audio_level_unclamped == audio_level

\* get_audio_level(): min(self.audio_level, 1.0)
get_audio_level == IF audio_level < 1000 THEN audio_level ELSE 1000

\* is_active(), is_recording()
is_active == running /\ ~paused
is_recording == recording

\* history of a stop_recording() call: recognizer invocations made, what the
\* recognizer gave ("none", a text, "" or "ERR"), the texts passed to
\* on_segment_complete, the value returned ("none" until the call returns) and
\* the segment history when the call began
NoFin == [calls |-> 0, out |-> "none", cb |-> <<>>, ret |-> "none", before |-> <<>>]

\* the controller returns from a call
Return(op) ==
    /\ ctl_pc' = "idle"
    /\ ctl_last' = op

Call == ctl_pc = "idle" /\ calls_left > 0 /\ calls_left' = calls_left - 1

\* ---- initial state: after RealtimeASR.__init__ ---------------------------
\* the engine as __init__ leaves it, for either value of each argument
Constructed ==
    /\ accumulate_mode \in BOOLEAN
    /\ vad_threshold \in VadThresholds
    /\ min_samples = MinSamples
    /\ running = FALSE /\ paused = FALSE /\ recording = TRUE /\ last_text = ""
    /\ buffer = <<>> /\ accumulated_audio = <<>> /\ accumulated_text = <<>>
    /\ lock = "free" /\ stream = "none" /\ process_thread = 0
    /\ audio_level = 0 /\ is_speech = FALSE
    /\ cb_pc = "idle" /\ nchunks = 0
    /\ ctl_pc = "idle" /\ final_text = "" /\ ctl_audio = <<>>
    /\ ctl_last = "none"
    /\ lpc = [i \in Loops |-> "dead"]
    /\ laudio = [i \in Loops |-> <<>>]
    /\ ltext = [i \in Loops |-> ""]
    /\ notified = {}
    /\ last_rec = <<>>
    /\ in_span = FALSE /\ span = <<>> /\ span_cut = 0 /\ span_from = -1
    /\ pushed = <<>>
    /\ forgot = FALSE
    /\ fin = NoFin
    /\ failed = {}
    /\ snaps = <<>>
    /\ got_text = <<>> /\ got_segments = NoList

\* no driver program: the controller calls the engine's operations in any order
NoDriver == drv_pc = "free" /\ was_pressed = FALSE /\ ptt_recording = FALSE /\ drv_mark = 0

\* no window drives the engine
NoWindow ==
    /\ gui_pc = "none" /\ gui_mark = 0
    /\ gui_is_recording = FALSE /\ asr_worker = "none"
    /\ worker_running = FALSE /\ status = "ready"

\* the controller may make MaxCalls calls, of any operations in any order
FreeController == NoDriver /\ NoWindow /\ calls_left = MaxCalls

Init == Constructed /\ FreeController /\ tracked = AllTracked

\* ---- capture callback (driver thread) ------------------------------------

\* a callback that drops the chunk while the session is paused
cb_begin_skips_paused(rms) ==
    /\ stream = "open" /\ cb_pc = "idle" /\ nchunks < MaxChunks
    /\ nchunks' = nchunks + 1
    /\ audio_level' = rms
    /\ is_speech' = Vad(rms)
    /\ cb_pc' = IF recording /\ ~paused THEN "push" ELSE "idle"
    /\ UNCHANGED <<config, session, stores, lock, stream, process_thread, ctlvars,
                   loopvars, hist, fin, failed, snaps, caller, driver, window>>

\* a callback that pushes every chunk, whatever the recording flag
cb_begin_ignores_recording(rms) ==
    /\ stream = "open" /\ cb_pc = "idle" /\ nchunks < MaxChunks
    /\ nchunks' = nchunks + 1
    /\ audio_level' = rms
    /\ is_speech' = Vad(rms)
    /\ cb_pc' = "push"
    /\ UNCHANGED <<config, session, stores, lock, stream, process_thread, ctlvars,
                   loopvars, hist, fin, failed, snaps, caller, driver, window>>

\* _audio_callback up to the test of self.recording
cb_begin(rms) ==
    /\ stream = "open" /\ cb_pc = "idle" /\ nchunks < MaxChunks
    /\ nchunks' = nchunks + 1
    /\ audio_level' = rms
    /\ is_speech' = Vad(rms)
    /\ cb_pc' = IF recording THEN "push" ELSE "idle"
    /\ UNCHANGED <<config, session, stores, lock, stream, process_thread, ctlvars,
                   loopvars, hist, fin, failed, snaps, caller, driver, window>>

\* _audio_callback: the critical section
cb_push ==
    /\ cb_pc = "push" /\ lock = "free"
    /\ buffer' = Extend(buffer, ChunkSamples(nchunks))
    /\ IF accumulate_mode
       THEN /\ accumulated_audio' = Append(accumulated_audio, ChunkSamples(nchunks))
            /\ Tracks("span", span, IF in_span THEN Append(span, nchunks) ELSE span)
       ELSE UNCHANGED <<accumulated_audio, span>>
    /\ cb_pc' = "idle"
    /\ Tracks("pushed", pushed, pushed \o ChunkSamples(nchunks))
    /\ UNCHANGED <<config, session, accumulated_text, lock, stream, process_thread,
                   level, nchunks, ctlvars, loopvars, notified, last_rec, in_span,
                   span_cut, span_from, forgot, fin, failed, snaps, caller, driver,
                   window>>

\* ---- recognition loop (one per started thread) ---------------------------

\* while self.running / if self.paused or not self.recording
l_top(i) ==
    /\ lpc[i] = "top"
    /\ lpc' = [lpc EXCEPT ![i] = IF ~running THEN "dead"
                                 ELSE IF paused \/ ~recording THEN "top"
                                 ELSE "snap"]
    /\ Tracks("failed", failed, IF ~running THEN failed \ {i} ELSE failed)
    /\ UNCHANGED <<config, session, stores, lock, stream, process_thread, level, cbvars,
                   ctlvars, laudio, ltext, hist, fin, snaps, caller, driver, window>>

\* the buffer copied whenever it is not empty, whatever its length
l_snap_any_length(i) ==
    /\ lpc[i] = "snap" /\ lock = "free"
    /\ IF Len(buffer) > 0 /\ ~(vad_threshold > 0 /\ ~is_speech)
       THEN /\ laudio' = [laudio EXCEPT ![i] = buffer]
            /\ lpc' = [lpc EXCEPT ![i] = "recognize"]
            /\ Tracks("snaps", snaps, Append(snaps, [by |-> i, passed |-> FALSE]))
       ELSE /\ lpc' = [lpc EXCEPT ![i] = "top"]
            /\ UNCHANGED <<laudio, snaps>>
    /\ UNCHANGED <<config, session, stores, lock, stream, process_thread, level, cbvars,
                   ctlvars, ltext, hist, fin, failed, caller, driver, window>>

\* the length test made strict: a buffer of exactly min_samples is too short
l_snap_strict(i) ==
    /\ lpc[i] = "snap" /\ lock = "free"
    /\ IF Len(buffer) > min_samples /\ ~(vad_threshold > 0 /\ ~is_speech)
       THEN /\ laudio' = [laudio EXCEPT ![i] = buffer]
            /\ lpc' = [lpc EXCEPT ![i] = "recognize"]
            /\ Tracks("snaps", snaps, Append(snaps, [by |-> i, passed |-> FALSE]))
       ELSE /\ lpc' = [lpc EXCEPT ![i] = "top"]
            /\ UNCHANGED <<laudio, snaps>>
    /\ UNCHANGED <<config, session, stores, lock, stream, process_thread, level, cbvars,
                   ctlvars, ltext, hist, fin, failed, caller, driver, window>>

\* the VAD gate left out: a long enough buffer is always recognized
l_snap_ungated(i) ==
    /\ lpc[i] = "snap" /\ lock = "free"
    /\ IF Len(buffer) >= min_samples
       THEN /\ laudio' = [laudio EXCEPT ![i] = buffer]
            /\ lpc' = [lpc EXCEPT ![i] = "recognize"]
            /\ Tracks("snaps", snaps, Append(snaps, [by |-> i, passed |-> FALSE]))
       ELSE /\ lpc' = [lpc EXCEPT ![i] = "top"]
            /\ UNCHANGED <<laudio, snaps>>
    /\ UNCHANGED <<config, session, stores, lock, stream, process_thread, level, cbvars,
                   ctlvars, ltext, hist, fin, failed, caller, driver, window>>

\* the buffer copied without the mutex: a copy taken while the callback is
\* appending sees the first sample of the chunk and not the rest
l_snap_torn(i) ==
    /\ lpc[i] = "snap"
    /\ IF Len(buffer) >= min_samples /\ ~(vad_threshold > 0 /\ ~is_speech)
       THEN /\ laudio' = [laudio EXCEPT ![i] =
                              IF cb_pc = "push"
                              THEN Extend(buffer, <<ChunkSamples(nchunks)[1]>>)
                              ELSE buffer]
            /\ lpc' = [lpc EXCEPT ![i] = "recognize"]
            /\ Tracks("snaps", snaps, Append(snaps, [by |-> i, passed |-> FALSE]))
       ELSE /\ lpc' = [lpc EXCEPT ![i] = "top"]
            /\ UNCHANGED <<laudio, snaps>>
    /\ UNCHANGED <<config, session, stores, lock, stream, process_thread, level, cbvars,
                   ctlvars, ltext, hist, fin, failed, caller, driver, window>>

\* the minimum capped at what the buffer can hold
l_snap_capped(i) ==
    /\ lpc[i] = "snap" /\ lock = "free"
    /\ IF /\ Len(buffer) >= (IF min_samples > Capacity THEN Capacity ELSE min_samples)
          /\ ~(vad_threshold > 0 /\ ~is_speech)
       THEN /\ laudio' = [laudio EXCEPT ![i] = buffer]
            /\ lpc' = [lpc EXCEPT ![i] = "recognize"]
            /\ Tracks("snaps", snaps, Append(snaps, [by |-> i, passed |-> FALSE]))
       ELSE /\ lpc' = [lpc EXCEPT ![i] = "top"]
            /\ UNCHANGED <<laudio, snaps>>
    /\ UNCHANGED <<config, session, stores, lock, stream, process_thread, level, cbvars,
                   ctlvars, ltext, hist, fin, failed, caller, driver, window>>

\* with self.lock: copy the buffer if long enough; then the VAD gate
l_snap(i) ==
    /\ lpc[i] = "snap" /\ lock = "free"
    /\ IF Len(buffer) >= min_samples /\ ~(vad_threshold > 0 /\ ~is_speech)
       THEN /\ laudio' = [laudio EXCEPT ![i] = buffer]
            /\ lpc' = [lpc EXCEPT ![i] = "recognize"]
            /\ Tracks("snaps", snaps, Append(snaps, [by |-> i, passed |-> FALSE]))
       ELSE /\ lpc' = [lpc EXCEPT ![i] = "top"]
            /\ UNCHANGED <<laudio, snaps>>
    /\ UNCHANGED <<config, session, stores, lock, stream, process_thread, level, cbvars,
                   ctlvars, ltext, hist, fin, failed, caller, driver, window>>

\* history: the snapshots in snaps without the one of loop i; those taken
\* before it are marked as passed when passing is true (loop i's result is
\* delivered ahead of theirs)
Without(i, passing) ==
    LET k == CHOOSE n \in 1..Len(snaps) : snaps[n].by = i
        Mark(n) == IF passing /\ n < k THEN [snaps[n] EXCEPT !.passed = TRUE] ELSE snaps[n]
    IN  [n \in 1..(Len(snaps) - 1) |-> IF n < k THEN Mark(n) ELSE snaps[n + 1]]

\* history: the recognition that loop i just completed with outcome out
Recorded(i, out) ==
    IF out \notin Texts THEN <<>>
    ELSE [by |-> i, text |-> out, intact |-> TRUE,
          n |-> IF last_rec # <<>> /\ last_rec.text = out THEN 2 ELSE 1]

\* history: a thread other than the recognizing loop wrote last_text
Foreign(who) ==
    IF last_rec # <<>> /\ last_rec.by # who
    THEN [last_rec EXCEPT !.intact = FALSE] ELSE last_rec

\* the comparison with last_text left out: every non-empty text is forwarded
l_recognized_nodedup(i, out) ==
    /\ lpc[i] = "recognize"
    /\ laudio' = [laudio EXCEPT ![i] = <<>>]
    /\ IF out # "ERR" /\ out # ""
       THEN /\ ltext' = [ltext EXCEPT ![i] = out]
            /\ lpc' = [lpc EXCEPT ![i] = "deliver"]
            /\ UNCHANGED snaps
       ELSE /\ lpc' = [lpc EXCEPT ![i] = "top"]
            /\ Tracks("snaps", snaps, Without(i, FALSE))
            /\ UNCHANGED ltext
    /\ Tracks("last_rec", last_rec, Recorded(i, out))
    /\ Tracks("failed", failed, IF out = "ERR" THEN failed \cup {i} ELSE failed \ {i})
    /\ UNCHANGED <<config, session, stores, lock, stream, process_thread, level, cbvars,
                   ctlvars, notified, in_span, span, span_cut, span_from, pushed,
                   forgot, fin, caller, driver, window>>

\* no try/except around the recognizer: an exception ends the loop thread
l_recognized_fatal(i, out) ==
    /\ lpc[i] = "recognize"
    /\ laudio' = [laudio EXCEPT ![i] = <<>>]
    /\ IF out # "ERR" /\ out # "" /\ out # last_text
       THEN /\ ltext' = [ltext EXCEPT ![i] = out]
            /\ lpc' = [lpc EXCEPT ![i] = "deliver"]
            /\ UNCHANGED snaps
       ELSE /\ lpc' = [lpc EXCEPT ![i] = IF out = "ERR" THEN "dead" ELSE "top"]
            /\ Tracks("snaps", snaps, Without(i, FALSE))
            /\ UNCHANGED ltext
    /\ Tracks("last_rec", last_rec, Recorded(i, out))
    /\ Tracks("failed", failed, IF out = "ERR" THEN failed \cup {i} ELSE failed \ {i})
    /\ UNCHANGED <<config, session, stores, lock, stream, process_thread, level, cbvars,
                   ctlvars, notified, in_span, span, span_cut, span_from, pushed,
                   forgot, fin, caller, driver, window>>

\* the test `if text` left out: an empty text that differs from last_text is
\* forwarded
l_recognized_forwards_empty(i, out) ==
    /\ lpc[i] = "recognize"
    /\ laudio' = [laudio EXCEPT ![i] = <<>>]
    /\ IF out # "ERR" /\ out # last_text
       THEN /\ ltext' = [ltext EXCEPT ![i] = out]
            /\ lpc' = [lpc EXCEPT ![i] = "deliver"]
            /\ UNCHANGED snaps
       ELSE /\ lpc' = [lpc EXCEPT ![i] = "top"]
            /\ Tracks("snaps", snaps, Without(i, FALSE))
            /\ UNCHANGED ltext
    /\ Tracks("last_rec", last_rec, Recorded(i, out))
    /\ Tracks("failed", failed, IF out = "ERR" THEN failed \cup {i} ELSE failed \ {i})
    /\ UNCHANGED <<config, session, stores, lock, stream, process_thread, level, cbvars,
                   ctlvars, notified, in_span, span, span_cut, span_from, pushed,
                   forgot, fin, caller, driver, window>>

\* model.recognize returns (or raises) and the result is compared with last_text
l_recognized(i, out) ==
    /\ lpc[i] = "recognize"
    /\ laudio' = [laudio EXCEPT ![i] = <<>>]
    /\ IF out # "ERR" /\ out # "" /\ out # last_text
       THEN /\ ltext' = [ltext EXCEPT ![i] = out]
            /\ lpc' = [lpc EXCEPT ![i] = "deliver"]
            /\ UNCHANGED snaps
       ELSE /\ lpc' = [lpc EXCEPT ![i] = "top"]
            /\ Tracks("snaps", snaps, Without(i, FALSE))
            /\ UNCHANGED ltext
    /\ Tracks("last_rec", last_rec, Recorded(i, out))
    /\ Tracks("failed", failed, IF out = "ERR" THEN failed \cup {i} ELSE failed \ {i})
    /\ Tracks("reset", forgot, IF out # "ERR" /\ out # "" THEN FALSE ELSE forgot)
    /\ UNCHANGED <<config, session, stores, lock, stream, process_thread, level, cbvars,
                   ctlvars, notified, in_span, span, span_cut, span_from, pushed, fin,
                   caller, driver, window>>

\* the write of last_text left out: on_result runs, the text is not remembered
l_deliver_forgets(i) ==
    /\ lpc[i] = "deliver"
    /\ Tracks("notified", notified, notified \cup {ltext[i]})
    /\ ltext' = [ltext EXCEPT ![i] = ""]
    /\ lpc' = [lpc EXCEPT ![i] = "top"]
    /\ Tracks("snaps", snaps, Without(i, TRUE))
    /\ UNCHANGED <<config, session, stores, lock, stream, process_thread, level, cbvars,
                   ctlvars, laudio, last_rec, in_span, span, span_cut, span_from,
                   pushed, forgot, fin, failed, caller, driver, window>>

\* self.last_text = text; self.on_result(text)
l_deliver(i) ==
    /\ lpc[i] = "deliver"
    /\ last_text' = ltext[i]
    /\ Tracks("notified", notified, notified \cup {ltext[i]})
    /\ ltext' = [ltext EXCEPT ![i] = ""]
    /\ lpc' = [lpc EXCEPT ![i] = "top"]
    /\ Tracks("last_rec", last_rec, Foreign(i))
    /\ Tracks("snaps", snaps, Without(i, TRUE))
    /\ UNCHANGED <<config, running, paused, recording, stores, lock, stream,
                   process_thread, level, cbvars, ctlvars, laudio, in_span, span,
                   span_cut, span_from, pushed, forgot, fin, failed, caller, driver,
                   window>>

\* ---- controller ----------------------------------------------------------

\* start() without the test of running: it starts again whatever the state
start_restarts ==
    /\ Call
    /\ running' = TRUE /\ paused' = FALSE /\ recording' = TRUE
    /\ ctl_pc' = "start_open"
    /\ UNCHANGED <<last_text, ctl_last>>
    /\ Tracks("fin", fin, NoFin)
    /\ UNCHANGED <<config, stores, lock, stream, process_thread, level, cbvars,
                   final_text, ctl_audio, loopvars, hist, failed, snaps, caller, driver,
                   window>>

\* start(): the running test and the three flag writes
start ==
    /\ Call
    /\ IF running
       THEN /\ Return("start_noop")
            /\ UNCHANGED session
       ELSE /\ running' = TRUE /\ paused' = FALSE /\ recording' = TRUE
            /\ ctl_pc' = "start_open"
            /\ UNCHANGED <<last_text, ctl_last>>
    /\ Tracks("fin", fin, NoFin)
    /\ UNCHANGED <<config, stores, lock, stream, process_thread, level, cbvars,
                   final_text, ctl_audio, loopvars, hist, failed, snaps, caller, driver,
                   window>>

\* start(): sd.InputStream(...) opens or raises; then the loop thread is started
start_open(ok) ==
    /\ ctl_pc = "start_open"
    /\ IF ok
       THEN /\ stream' = "open"
            /\ process_thread' = FreeSlot
            /\ lpc' = [lpc EXCEPT ![FreeSlot] = "top"]
            /\ Tracks("notified", notified, {})
            /\ Tracks("last_rec", last_rec, <<>>)
            /\ Return("start_ok")
       ELSE /\ Return("start_fail")
            /\ UNCHANGED <<stream, process_thread, lpc, notified, last_rec>>
    /\ UNCHANGED <<config, session, stores, lock, level, cbvars, final_text, ctl_audio,
                   calls_left, laudio, ltext, in_span, span, span_cut, span_from,
                   pushed, forgot, fin, failed, snaps, caller, driver, window>>

\* stop(): self.running = False
stop ==
    /\ Call
    /\ running' = FALSE
    /\ ctl_pc' = "stop_close"
    /\ Tracks("last_rec", last_rec, <<>>)
    /\ Tracks("fin", fin, NoFin)
    /\ UNCHANGED <<config, paused, recording, last_text, stores, lock, stream,
                   process_thread, level, cbvars, final_text, ctl_audio, ctl_last,
                   loopvars, notified, in_span, span, span_cut, span_from, pushed,
                   forgot, failed, snaps, caller, driver, window>>

\* stop(): stream.stop(); stream.close() -- waits for a callback in progress
stop_close ==
    /\ ctl_pc = "stop_close"
    /\ cb_pc = "idle"
    /\ stream' = "none"
    /\ ctl_pc' = "stop_join"
    /\ UNCHANGED <<config, session, stores, lock, process_thread, level, cbvars,
                   final_text, ctl_audio, calls_left, ctl_last, loopvars, hist, fin,
                   failed, snaps, caller, driver, window>>

\* stop(): process_thread.join(timeout=1.0) -- the thread ended, or the wait
\* timed out while the thread is blocked in the recognizer
stop_join ==
    /\ ctl_pc = "stop_join"
    /\ \/ process_thread = 0
       \/ process_thread # 0 /\ lpc[process_thread] \in {"dead", "recognize"}
    /\ process_thread' = 0
    /\ ctl_pc' = "stop_clear"
    /\ UNCHANGED <<config, session, stores, lock, stream, level, cbvars, final_text,
                   ctl_audio, calls_left, ctl_last, loopvars, hist, fin, failed, snaps,
                   caller, driver, window>>

\* stop() that also empties the segment history
stop_clear_drops_segments ==
    /\ ctl_pc = "stop_clear" /\ lock = "free"
    /\ buffer' = <<>>
    /\ accumulated_text' = <<>>
    /\ last_text' = ""
    /\ Tracks("last_rec", last_rec, Foreign(0))
    /\ Return("stop")
    /\ Tracks("pushed", pushed, <<>>)
    /\ Tracks("reset", forgot, TRUE)
    /\ UNCHANGED <<config, running, paused, recording, accumulated_audio, lock, stream,
                   process_thread, level, cbvars, final_text, ctl_audio, calls_left,
                   loopvars, notified, in_span, span, span_cut, span_from, fin, failed,
                   snaps, caller, driver, window>>

\* stop(): with self.lock: buffer.clear(); self.last_text = ""
stop_clear ==
    /\ ctl_pc = "stop_clear" /\ lock = "free"
    /\ buffer' = <<>>
    /\ last_text' = ""
    /\ Tracks("last_rec", last_rec, Foreign(0))
    /\ Return("stop")
    /\ Tracks("pushed", pushed, <<>>)
    /\ Tracks("reset", forgot, TRUE)
    /\ UNCHANGED <<config, running, paused, recording, accumulated_audio,
                   accumulated_text, lock, stream, process_thread, level, cbvars,
                   final_text, ctl_audio, calls_left, loopvars, notified, in_span, span,
                   span_cut, span_from, fin, failed, snaps, caller, driver, window>>

pause ==
    /\ Call
    /\ paused' = TRUE
    /\ Return("pause")
    /\ Tracks("fin", fin, NoFin)
    /\ UNCHANGED <<config, running, recording, last_text, stores, lock, stream,
                   process_thread, level, cbvars, final_text, ctl_audio, loopvars, hist,
                   failed, snaps, caller, driver, window>>

resume ==
    /\ Call
    /\ paused' = FALSE
    /\ Return("resume")
    /\ Tracks("fin", fin, NoFin)
    /\ UNCHANGED <<config, running, recording, last_text, stores, lock, stream,
                   process_thread, level, cbvars, final_text, ctl_audio, loopvars, hist,
                   failed, snaps, caller, driver, window>>

start_recording ==
    /\ Call /\ lock = "free"
    /\ buffer' = <<>>
    /\ accumulated_audio' = <<>>
    /\ last_text' = ""
    /\ recording' = TRUE
    /\ Tracks("last_rec", last_rec, Foreign(0))
    /\ Tracks("span", in_span, TRUE) /\ Tracks("span", span, <<>>) /\ Tracks("span", span_cut, 0)
    /\ Return("start_recording")
    /\ Tracks("fin", fin, NoFin)
    /\ Tracks("fresh", span_from, nchunks)
    /\ Tracks("pushed", pushed, <<>>)
    /\ Tracks("reset", forgot, TRUE)
    /\ UNCHANGED <<config, running, paused, accumulated_text, lock, stream,
                   process_thread, level, cbvars, final_text, ctl_audio, loopvars,
                   notified, failed, snaps, caller, driver, window>>

\* stop_recording(): self.recording = False
stop_recording ==
    /\ Call
    /\ recording' = FALSE
    /\ final_text' = ""
    /\ ctl_pc' = "rec_lock"
    /\ Tracks("fin", fin, [NoFin EXCEPT !.before = accumulated_text])
    /\ UNCHANGED <<config, running, paused, last_text, stores, lock, stream,
                   process_thread, level, cbvars, ctl_audio, ctl_last, loopvars, hist,
                   failed, snaps, caller, driver, window>>

\* the test of the buffer's length left out: the recognizer is always invoked
rec_lock_always ==
    /\ ctl_pc = "rec_lock" /\ lock = "free"
    /\ ctl_audio' = IF accumulate_mode /\ accumulated_audio # <<>>
                    THEN Concatenate(accumulated_audio) ELSE buffer
    /\ lock' = "ctl"
    /\ ctl_pc' = "rec_recognize"
    /\ Tracks("fin", fin, [fin EXCEPT !.calls = @ + 1])
    /\ UNCHANGED <<config, session, stores, stream, process_thread, level, cbvars,
                   final_text, calls_left, ctl_last, loopvars, hist, failed, snaps,
                   caller, driver, window>>

\* the ring buffer finalized in both modes, the log ignored
rec_lock_ring ==
    /\ ctl_pc = "rec_lock" /\ lock = "free"
    /\ IF Len(buffer) > 0
       THEN /\ ctl_audio' = buffer
            /\ lock' = "ctl"
            /\ ctl_pc' = "rec_recognize"
            /\ Tracks("fin", fin, [fin EXCEPT !.calls = @ + 1])
       ELSE /\ ctl_pc' = "rec_finish"
            /\ UNCHANGED <<lock, ctl_audio, fin>>
    /\ UNCHANGED <<config, session, stores, stream, process_thread, level, cbvars,
                   final_text, calls_left, ctl_last, loopvars, hist, failed, snaps,
                   caller, driver, window>>

\* stop_recording(): take the lock and pick the audio to finalize
rec_lock ==
    /\ ctl_pc = "rec_lock" /\ lock = "free"
    /\ IF accumulate_mode /\ accumulated_audio # <<>>
       THEN /\ ctl_audio' = Concatenate(accumulated_audio)
            /\ lock' = "ctl"
            /\ ctl_pc' = "rec_recognize"
            /\ Tracks("fin", fin, [fin EXCEPT !.calls = @ + 1])
       ELSE IF Len(buffer) > 0
       THEN /\ ctl_audio' = buffer
            /\ lock' = "ctl"
            /\ ctl_pc' = "rec_recognize"
            /\ Tracks("fin", fin, [fin EXCEPT !.calls = @ + 1])
       ELSE /\ ctl_pc' = "rec_finish"
            /\ UNCHANGED <<lock, ctl_audio, fin>>
    /\ UNCHANGED <<config, session, stores, stream, process_thread, level, cbvars,
                   final_text, calls_left, ctl_last, loopvars, hist, failed, snaps,
                   caller, driver, window>>

\* the lock released by hand after the call, not by `with`: an exception of the
\* recognizer leaves it held
rec_recognize_keeps_lock(out) ==
    /\ ctl_pc = "rec_recognize"
    /\ final_text' = IF out = "ERR" THEN "" ELSE out
    /\ accumulated_audio' = IF accumulate_mode /\ accumulated_audio # <<>>
                            THEN <<>> ELSE accumulated_audio
    /\ ctl_audio' = <<>>
    /\ lock' = IF out = "ERR" THEN "ctl" ELSE "free"
    /\ ctl_pc' = "rec_finish"
    /\ Tracks("fin", fin, [fin EXCEPT !.out = out])
    /\ UNCHANGED <<config, session, buffer, accumulated_text, stream, process_thread,
                   level, cbvars, calls_left, ctl_last, loopvars, hist, failed, snaps,
                   caller, driver, window>>

\* stop_recording(): model.recognize returns or raises; the log is cleared in
\* the accumulate branch; the lock is released
rec_recognize(out) ==
    /\ ctl_pc = "rec_recognize"
    /\ final_text' = IF out = "ERR" THEN "" ELSE out
    /\ accumulated_audio' = IF accumulate_mode /\ accumulated_audio # <<>>
                            THEN <<>> ELSE accumulated_audio
    /\ ctl_audio' = <<>>
    /\ lock' = "free"
    /\ ctl_pc' = "rec_finish"
    /\ Tracks("fin", fin, [fin EXCEPT !.out = out])
    /\ UNCHANGED <<config, session, buffer, accumulated_text, stream, process_thread,
                   level, cbvars, calls_left, ctl_last, loopvars, hist, failed, snaps,
                   caller, driver, window>>

\* the test `if final_text:` left out: the text is recorded even when empty
rec_finish_unconditional ==
    /\ ctl_pc = "rec_finish"
    /\ accumulated_text' = Append(accumulated_text, final_text)
    /\ final_text' = ""
    /\ Tracks("span", in_span, FALSE) /\ Tracks("span", span, <<>>) /\ Tracks("span", span_cut, 0)
    /\ Return("stop_recording")
    /\ Tracks("fin", fin, [fin EXCEPT !.ret = final_text, !.cb = <<final_text>>])
    /\ Tracks("fresh", span_from, -1)
    /\ UNCHANGED <<config, session, buffer, accumulated_audio, lock, stream,
                   process_thread, level, cbvars, ctl_audio, calls_left, loopvars,
                   notified, last_rec, pushed, forgot, failed, snaps, caller, driver,
                   window>>

\* stop_recording(): record the segment, notify, return
rec_finish ==
    /\ ctl_pc = "rec_finish"
    /\ accumulated_text' = IF final_text # ""
                           THEN Append(accumulated_text, final_text)
                           ELSE accumulated_text
    /\ final_text' = ""
    /\ Tracks("span", in_span, FALSE) /\ Tracks("span", span, <<>>) /\ Tracks("span", span_cut, 0)
    /\ Return("stop_recording")
    /\ Tracks("fin", fin, [fin EXCEPT !.ret = final_text,
                                     !.cb = IF final_text # "" THEN <<final_text>>
                                            ELSE <<>>])
    /\ Tracks("fresh", span_from, -1)
    /\ UNCHANGED <<config, session, buffer, accumulated_audio, lock, stream,
                   process_thread, level, cbvars, ctl_audio, calls_left, loopvars,
                   notified, last_rec, pushed, forgot, failed, snaps, caller, driver,
                   window>>

clear_accumulated_text ==
    /\ Call
    /\ accumulated_text' = <<>>
    /\ Return("clear_accumulated_text")
    /\ Tracks("fin", fin, NoFin)
    /\ UNCHANGED <<config, session, buffer, accumulated_audio, lock, stream,
                   process_thread, level, cbvars, final_text, ctl_audio, loopvars, hist,
                   failed, snaps, caller, driver, window>>

clear_buffer ==
    /\ Call /\ lock = "free"
    /\ buffer' = <<>>
    /\ accumulated_audio' = <<>>
    /\ last_text' = ""
    /\ Tracks("last_rec", last_rec, Foreign(0))
    /\ Tracks("span", span_cut, Len(span))
    /\ Return("clear_buffer")
    /\ Tracks("fin", fin, NoFin)
    /\ Tracks("pushed", pushed, <<>>)
    /\ UNCHANGED span_from
    /\ Tracks("reset", forgot, TRUE)
    /\ UNCHANGED <<config, running, paused, recording, accumulated_text, lock, stream,
                   process_thread, level, cbvars, final_text, ctl_audio, loopvars,
                   notified, in_span, span, failed, snaps, caller, driver, window>>

\* ---- specification -------------------------------------------------------
Next ==
    \/ \E rms \in Levels : cb_begin(rms)
    \/ cb_push
    \/ \E i \in Loops : l_top(i)
    \/ \E i \in Loops : l_snap(i)
    \/ \E i \in Loops, out \in Outcomes : l_recognized(i, out)
    \/ \E i \in Loops : l_deliver(i)
    \/ start
    \/ \E ok \in BOOLEAN : start_open(ok)
    \/ stop
    \/ stop_close
    \/ stop_join
    \/ stop_clear
    \/ pause
    \/ resume
    \/ start_recording
    \/ stop_recording
    \/ rec_lock
    \/ \E out \in Outcomes : rec_recognize(out)
    \/ rec_finish
    \/ clear_accumulated_text
    \/ clear_buffer

Spec == Init /\ [][Next]_vars

\* the same engine and the same steps with fewer histories kept: none, those
\* of the streaming results, that of stop_recording(), that of the failures,
\* that of the pushes
InitCore == Constructed /\ FreeController /\ tracked = {}
InitDedup == Constructed /\ FreeController /\ tracked = {"notified", "last_rec"}
InitFinal == Constructed /\ FreeController /\ tracked = {"fin"}
InitRetry == Constructed /\ FreeController /\ tracked = {"failed"}
InitFifo == Constructed /\ FreeController /\ tracked = {"pushed"}
InitReset == Constructed /\ FreeController /\ tracked = {"reset"}

SpecCore == InitCore /\ [][Next]_vars
SpecDedup == InitDedup /\ [][Next]_vars
SpecFinal == InitFinal /\ [][Next]_vars
SpecRetry == InitRetry /\ [][Next]_vars
SpecFifo == InitFifo /\ [][Next]_vars
SpecReset == InitReset /\ [][Next]_vars

\* an engine built with the given accumulate_mode, vad_threshold and minimum
\* length, after a start() that opened the device, with the whole call budget
\* still to spend
StartedWith(accumulate, threshold, minimum) ==
    /\ accumulate_mode = accumulate
    /\ vad_threshold = threshold
    /\ min_samples = minimum
    /\ running = TRUE /\ paused = FALSE /\ recording = TRUE /\ last_text = ""
    /\ buffer = <<>> /\ accumulated_audio = <<>> /\ accumulated_text = <<>>
    /\ lock = "free" /\ stream = "open" /\ process_thread = 1
    /\ audio_level = 0 /\ is_speech = FALSE
    /\ cb_pc = "idle" /\ nchunks = 0
    /\ ctl_pc = "idle" /\ final_text = "" /\ ctl_audio = <<>>
    /\ calls_left = MaxCalls /\ ctl_last = "start_ok"
    /\ lpc = [i \in Loops |-> IF i = 1 THEN "top" ELSE "dead"]
    /\ laudio = [i \in Loops |-> <<>>]
    /\ ltext = [i \in Loops |-> ""]
    /\ notified = {}
    /\ last_rec = <<>>
    /\ in_span = FALSE /\ span = <<>> /\ span_cut = 0 /\ span_from = -1
    /\ pushed = <<>>
    /\ forgot = FALSE
    /\ fin = NoFin
    /\ failed = {}
    /\ snaps = <<>>
    /\ got_text = <<>> /\ got_segments = NoList

\* an engine built with accumulate_mode=True and the VAD gate off, started:
\* the state a recording span begins in
Started == StartedWith(TRUE, 0, MinSamples)

\* the started engine, keeping the history of the recording span
InitStarted == Started /\ NoDriver /\ NoWindow /\ tracked = {"span"}

SpecStarted == InitStarted /\ [][Next]_vars

\* an engine in continuous mode with the VAD gate off, started, that needs
\* more samples than one chunk brings before it recognizes
InitStreaming == StartedWith(FALSE, 0, MinSamples + 1) /\ NoDriver /\ NoWindow /\ tracked = {}

SpecStreaming == InitStreaming /\ [][Next]_vars

\* a started engine, in either mode, whose minimum is the usual one or one
\* sample more than the buffer can hold
InitMinimum ==
    /\ \E accumulate \in BOOLEAN : \E minimum \in {MinSamples, Capacity + 1} :
           StartedWith(accumulate, 0, minimum)
    /\ NoDriver /\ NoWindow /\ tracked = {}
SpecMinimum == InitMinimum /\ [][Next]_vars

\* a step of loop thread i: the thread is scheduled, and the recognizer call
\* it is waiting for returns or raises
LoopStep(i) ==
    \/ l_top(i)
    \/ l_snap(i)
    \/ \E out \in Outcomes : l_recognized(i, out)
    \/ l_deliver(i)

\* every loop thread that can take a step eventually takes one
LoopsFair == \A i \in Loops : WF_vars(LoopStep(i))

\* the streaming engine with its loop threads scheduled fairly
SpecLive == InitStreaming /\ [][Next]_vars /\ LoopsFair

TypeOK ==
    /\ accumulate_mode \in BOOLEAN /\ vad_threshold \in VadThresholds
    /\ min_samples \in MinSamples..(Capacity + 1)
    /\ running \in BOOLEAN /\ paused \in BOOLEAN /\ recording \in BOOLEAN
    /\ last_text \in Texts \cup {""}
    /\ lock \in {"free", "ctl"} /\ stream \in {"none", "open"}
    /\ process_thread \in Loops \cup {0}
    /\ cb_pc \in {"idle", "push"} /\ nchunks \in 0..MaxChunks
    /\ calls_left \in 0..MaxCalls
    /\ \A i \in Loops : lpc[i] \in {"dead", "top", "snap", "recognize", "deliver"}

\* a step inside a controller call in progress: the calling thread is
\* scheduled, the device call or the recognizer call it waits for returns
ControllerStep ==
    \/ \E ok \in BOOLEAN : start_open(ok)
    \/ stop_close
    \/ stop_join
    \/ stop_clear
    \/ rec_lock
    \/ \E out \in Outcomes : rec_recognize(out)
    \/ rec_finish

\* every thread that can take a step eventually takes one, and every
\* recognizer call returns or raises
ThreadsFair == LoopsFair /\ WF_vars(cb_push) /\ WF_vars(ControllerStep)

\* the started streaming engine with all its threads scheduled fairly
SpecFair == InitStreaming /\ [][Next]_vars /\ ThreadsFair

\* ---- the push-to-talk driver (run_live.py) ---------------------------------

\* the calls the driver may make in one behaviour
PttCalls == MaxCalls + 2

engine == <<config, session, stores, lock, stream, process_thread, level, cbvars,
            ctlvars, loopvars, hist, fin, failed, snaps, caller>>

\* the driver reaches a call statement
Reaches(pc) == drv_pc' = pc /\ drv_mark' = calls_left

\* the driver stands at the call statement pc and has not made the call yet
AtCall(pc) == drv_pc = pc /\ calls_left = drv_mark

\* the call the driver made at pc has returned
Returned_to(pc) == drv_pc = pc /\ calls_left < drv_mark /\ ctl_pc = "idle"

\* asr.recording = False, before asr.start()
ptt_arm ==
    /\ drv_pc = "init"
    /\ recording' = FALSE
    /\ Reaches("start")
    /\ UNCHANGED <<config, running, paused, last_text, stores, lock, stream,
                   process_thread, level, cbvars, ctlvars, loopvars, hist, fin, failed,
                   snaps, caller, window, was_pressed, ptt_recording>>

\* asr.start(device=device_id)
ptt_start == AtCall("start") /\ start

\* asr.start() returned: the polling loop begins; or it raised, and the
\* exception leaves the function through its finally block
ptt_started ==
    /\ Returned_to("start")
    /\ drv_pc' = IF ctl_last = "start_ok" THEN "poll" ELSE "finally"
    /\ UNCHANGED <<engine, window, was_pressed, ptt_recording, drv_mark>>

\* one polling iteration that sees an edge of the key: the flags are written
\* and the driver reaches the call of start_recording() or stop_recording()
ptt_poll(is_key_pressed) ==
    /\ drv_pc = "poll"
    /\ is_key_pressed # was_pressed
    /\ was_pressed' = is_key_pressed
    /\ ptt_recording' = is_key_pressed
    /\ Reaches(IF is_key_pressed THEN "press" ELSE "release")
    /\ UNCHANGED <<engine, window>>

\* asr.start_recording() on a press edge
ptt_start_recording == AtCall("press") /\ start_recording

\* text = asr.stop_recording() on a release edge
ptt_stop_recording == AtCall("release") /\ stop_recording

\* the call made on an edge returned: wait 0.1 s and poll again
ptt_returned ==
    /\ Returned_to("press") \/ Returned_to("release")
    /\ drv_pc' = "poll"
    /\ UNCHANGED <<engine, window, was_pressed, ptt_recording, drv_mark>>

\* keyboard.is_pressed('esc'): break
ptt_esc ==
    /\ drv_pc = "poll"
    /\ drv_pc' = "finally"
    /\ UNCHANGED <<engine, window, was_pressed, ptt_recording, drv_mark>>

\* KeyboardInterrupt between two statements of the try block
ptt_interrupt ==
    /\ drv_pc \in {"start", "poll", "press", "release"}
    /\ ctl_pc = "idle"
    /\ drv_pc' = "finally"
    /\ UNCHANGED <<engine, window, was_pressed, ptt_recording, drv_mark>>

\* finally: if is_recording: text = asr.stop_recording(); else back to main
ptt_finally ==
    /\ drv_pc = "finally"
    /\ Reaches(IF ptt_recording THEN "final" ELSE "stop")
    /\ UNCHANGED <<engine, window, was_pressed, ptt_recording>>

\* the stop_recording() of the finally block
ptt_final_stop_recording == AtCall("final") /\ stop_recording

\* the final stop_recording() returned: back to main, whose finally block
\* calls asr.stop()
ptt_finalized ==
    /\ Returned_to("final")
    /\ Reaches("stop")
    /\ UNCHANGED <<engine, window, was_pressed, ptt_recording>>

\* main: asr.stop()
ptt_stop == AtCall("stop") /\ stop

\* the engine as main builds it for push-to-talk (accumulate_mode is forced),
\* the driver about to run
InitPtt ==
    /\ Constructed /\ accumulate_mode = TRUE
    /\ calls_left = PttCalls
    /\ drv_pc = "init" /\ was_pressed = FALSE /\ ptt_recording = FALSE /\ drv_mark = 0
    /\ NoWindow
    /\ tracked = {}

NextPtt ==
    \/ ptt_arm
    \/ ptt_start
    \/ \E ok \in BOOLEAN : start_open(ok)
    \/ ptt_started
    \/ \E is_key_pressed \in BOOLEAN : ptt_poll(is_key_pressed)
    \/ ptt_start_recording
    \/ ptt_stop_recording
    \/ rec_lock
    \/ \E out \in Outcomes : rec_recognize(out)
    \/ rec_finish
    \/ ptt_returned
    \/ ptt_esc
    \/ ptt_interrupt
    \/ ptt_finally
    \/ ptt_final_stop_recording
    \/ ptt_finalized
    \/ ptt_stop
    \/ stop_close
    \/ stop_join
    \/ stop_clear
    \/ \E rms \in Levels : cb_begin(rms)
    \/ cb_push
    \/ \E i \in Loops : l_top(i)
    \/ \E i \in Loops : l_snap(i)
    \/ \E i \in Loops, out \in Outcomes : l_recognized(i, out)
    \/ \E i \in Loops : l_deliver(i)

SpecPtt == InitPtt /\ [][NextPtt]_vars

\* ---- the window (src/ui/gui.py) --------------------------------------------

\* The window's handlers run on the GUI thread, one at a time.  The worker is
\* a QObject of the same thread and run() is called directly, so its signals
\* reach the window's slots as direct calls, inside emit(), before the
\* statement after emit() runs.  A handler's calls of the engine block it
\* while the engine's own threads go on.

\* the handler reaches its call of the engine at pc
GuiReaches(pc) == gui_pc' = pc /\ gui_mark' = calls_left

\* the handler stands before its call of the engine at pc
GuiAtCall(pc) == gui_pc = pc /\ calls_left = gui_mark

\* the engine call made at pc has returned or raised
GuiReturned(pc) == gui_pc = pc /\ calls_left < gui_mark /\ ctl_pc = "idle"

\* RealtimeASR(model, buffer_seconds=3.0, vad_threshold=0.01,
\* accumulate_mode=True): a new engine, every field as __init__ leaves it; the
\* engine before it is no longer referenced by the window
NewEngine ==
    /\ running' = FALSE /\ paused' = FALSE /\ recording' = TRUE /\ last_text' = ""
    /\ buffer' = <<>> /\ accumulated_audio' = <<>> /\ accumulated_text' = <<>>
    /\ lock' = "free" /\ stream' = "none" /\ process_thread' = 0
    /\ audio_level' = 0 /\ is_speech' = FALSE
    /\ cb_pc' = "idle" /\ nchunks' = 0
    /\ final_text' = "" /\ ctl_audio' = <<>> /\ ctl_last' = "none"
    /\ lpc' = [i \in Loops |-> "dead"]
    /\ laudio' = [i \in Loops |-> <<>>]
    /\ ltext' = [i \in Loops |-> ""]

\* _toggle_recording() with is_recording false: _start_recording() builds the
\* engine and the worker, connects the signals and calls worker.run(), which
\* sets the callbacks and calls asr.start()
win_start_recording ==
    /\ gui_pc = "ready" /\ ~gui_is_recording
    /\ calls_left > 0
    /\ NewEngine
    /\ asr_worker' = "set" /\ worker_running' = FALSE
    /\ GuiReaches("run")
    /\ UNCHANGED <<config, ctl_pc, calls_left, hist, fin, failed, snaps, caller, driver,
                   gui_is_recording, status>>

\* run(): self.asr.start(device=self.device_id)
win_run == GuiAtCall("run") /\ start

\* asr.start() returned: run() sets running and emits status "recording";
\* _start_recording() sets is_recording and the status
win_started ==
    /\ GuiReturned("run") /\ ctl_last = "start_ok"
    /\ worker_running' = TRUE
    /\ gui_is_recording' = TRUE
    /\ status' = "recording"
    /\ gui_pc' = "ready"
    /\ UNCHANGED <<engine, driver, gui_mark, asr_worker>>

\* asr.start() raised: run() emits error_occurred, whose slot _on_asr_error()
\* calls _stop_recording(), which calls worker.stop(), which clears running
\* and calls asr.stop()
win_start_failed ==
    /\ GuiReturned("run") /\ ctl_last = "start_fail"
    /\ worker_running' = FALSE
    /\ GuiReaches("error_stop")
    /\ UNCHANGED <<engine, driver, gui_is_recording, asr_worker, status>>

\* worker.stop() inside the error slot: self.asr.stop()
win_error_stop == GuiAtCall("error_stop") /\ stop

\* asr.stop() returned inside the error slot.  worker.stop() emits status
\* "ready"; _stop_recording() drops the worker and the engine, clears
\* is_recording and sets status "ready"; the slot returns into run(), which
\* emits status "error" and returns; _start_recording() goes on after
\* worker.run(): it sets is_recording and status "recording"
win_error_handled ==
    /\ GuiReturned("error_stop")
    /\ LET stopped == [is_recording |-> FALSE, worker |-> "none", status |-> "ready"]
           failed_ == [stopped EXCEPT !.status = "error"]
           resumed == [failed_ EXCEPT !.is_recording = TRUE, !.status = "recording"]
       IN  /\ gui_is_recording' = resumed.is_recording
           /\ asr_worker' = resumed.worker
           /\ status' = resumed.status
    /\ gui_pc' = "ready"
    /\ UNCHANGED <<engine, driver, gui_mark, worker_running>>

\* _toggle_recording() with is_recording true: _stop_recording() calls
\* worker.stop() when there is a worker, and only clears the window's state
\* when there is none
win_stop_recording ==
    /\ gui_pc = "ready" /\ gui_is_recording
    /\ IF asr_worker = "set"
       THEN /\ calls_left > 0
            /\ worker_running' = FALSE
            /\ GuiReaches("stop")
            /\ UNCHANGED <<gui_is_recording, asr_worker, status>>
       ELSE /\ gui_is_recording' = FALSE
            /\ status' = "ready"
            /\ UNCHANGED <<gui_pc, gui_mark, asr_worker, worker_running>>
    /\ UNCHANGED <<engine, driver>>

\* worker.stop(): self.asr.stop()
win_stop == GuiAtCall("stop") /\ stop

\* asr.stop() returned: worker.stop() emits status "ready"; _stop_recording()
\* drops the worker and the engine, clears is_recording, sets status "ready"
win_stopped ==
    /\ GuiReturned("stop")
    /\ asr_worker' = "none"
    /\ gui_is_recording' = FALSE
    /\ status' = "ready"
    /\ gui_pc' = "ready"
    /\ UNCHANGED <<engine, driver, gui_mark, worker_running>>

\* the window after construction with a loaded model: no engine yet; the
\* engine variables hold what the first RealtimeASR(...) will be built with
InitGui ==
    /\ Constructed /\ accumulate_mode = TRUE /\ vad_threshold = 10
    /\ calls_left = MaxCalls
    /\ NoDriver
    /\ gui_pc = "ready" /\ gui_mark = 0
    /\ gui_is_recording = FALSE /\ asr_worker = "none"
    /\ worker_running = FALSE /\ status = "ready"
    /\ tracked = {}

NextGui ==
    \/ win_start_recording
    \/ win_run
    \/ \E ok \in BOOLEAN : start_open(ok)
    \/ win_started
    \/ win_start_failed
    \/ win_error_stop
    \/ win_error_handled
    \/ win_stop_recording
    \/ win_stop
    \/ win_stopped
    \/ stop_close
    \/ stop_join
    \/ stop_clear
    \/ \E rms \in Levels : cb_begin(rms)
    \/ cb_push
    \/ \E i \in Loops : l_top(i)
    \/ \E i \in Loops : l_snap(i)
    \/ \E i \in Loops, out \in Outcomes : l_recognized(i, out)
    \/ \E i \in Loops : l_deliver(i)

SpecGui == InitGui /\ [][NextGui]_vars

\* ---- the segment history and its getters ----------------------------------

\* every history of at most MaxSegments segments
RECURSIVE SegmentHistories(_)
SegmentHistories(n) ==
    IF n = 0 THEN {<<>>}
    ELSE SegmentHistories(n - 1) \cup
         {Append(h, t) : h \in {g \in SegmentHistories(n - 1) : Len(g) = n - 1},
                         t \in Texts}

\* return " ".join(self.accumulated_text)
get_accumulated_text ==
    /\ Call
    /\ got_text' = Join(accumulated_text)
    /\ Return("get_accumulated_text")
    /\ UNCHANGED <<config, session, stores, lock, stream, process_thread, level, cbvars,
                   final_text, ctl_audio, loopvars, hist, fin, failed, snaps,
                   got_segments, driver, window>>

\* the list itself returned, not a copy of it
get_accumulated_segments_aliased ==
    /\ Call
    /\ got_segments' = [held |-> TRUE, list |-> accumulated_text, copy |-> FALSE]
    /\ Return("get_accumulated_segments")
    /\ UNCHANGED <<config, session, stores, lock, stream, process_thread, level, cbvars,
                   final_text, ctl_audio, loopvars, hist, fin, failed, snaps, got_text,
                   driver, window>>

\* return self.accumulated_text.copy(): a new list with the same items
get_accumulated_segments ==
    /\ Call
    /\ got_segments' = [held |-> TRUE, list |-> accumulated_text, copy |-> TRUE]
    /\ Return("get_accumulated_segments")
    /\ UNCHANGED <<config, session, stores, lock, stream, process_thread, level, cbvars,
                   final_text, ctl_audio, loopvars, hist, fin, failed, snaps, got_text,
                   driver, window>>

\* the caller appends to the list it was given; the engine's list changes with
\* it only when it is the same list
caller_appends(t) ==
    /\ ctl_pc = "idle" /\ got_segments.held
    /\ Len(got_segments.list) <= MaxSegments
    /\ got_segments' = [got_segments EXCEPT !.list = Append(@, t)]
    /\ accumulated_text' = IF got_segments.copy THEN accumulated_text
                           ELSE Append(accumulated_text, t)
    /\ UNCHANGED <<config, session, buffer, accumulated_audio, lock, stream,
                   process_thread, level, cbvars, ctlvars, loopvars, hist, fin, failed,
                   snaps, got_text, driver, window>>

\* an engine after a session in which a silent chunk was captured, some
\* segments were recorded by stop_recording() and stop() was called, with the
\* whole call budget still to spend on the history's operations
InitHistory ==
    /\ accumulate_mode \in BOOLEAN
    /\ vad_threshold \in VadThresholds
    /\ min_samples = MinSamples
    /\ running = FALSE /\ paused = FALSE /\ recording = FALSE /\ last_text = ""
    /\ buffer = <<>> /\ accumulated_audio = <<>>
    /\ accumulated_text \in SegmentHistories(MaxSegments)
    /\ lock = "free" /\ stream = "none" /\ process_thread = 0
    /\ audio_level = 0 /\ is_speech = Vad(0)
    /\ cb_pc = "idle" /\ nchunks = 1
    /\ ctl_pc = "idle" /\ final_text = "" /\ ctl_audio = <<>>
    /\ calls_left = MaxCalls /\ ctl_last = "stop"
    /\ lpc = [i \in Loops |-> "dead"]
    /\ laudio = [i \in Loops |-> <<>>]
    /\ ltext = [i \in Loops |-> ""]
    /\ notified = {}
    /\ last_rec = <<>>
    /\ in_span = FALSE /\ span = <<>> /\ span_cut = 0 /\ span_from = -1
    /\ pushed = <<>>
    /\ forgot = FALSE
    /\ fin = NoFin
    /\ failed = {}
    /\ snaps = <<>>
    /\ got_text = <<>> /\ got_segments = NoList
    /\ NoDriver /\ NoWindow
    /\ tracked = {}

NextHistory ==
    \/ get_accumulated_text
    \/ get_accumulated_segments
    \/ \E t \in Texts : caller_appends(t)
    \/ clear_accumulated_text

SpecHistory == InitHistory /\ [][NextHistory]_vars

\* ---- claims --------------------------------------------------------------

InFlight == Cardinality({i \in Loops : lpc[i] = "recognize"})
            + (IF ctl_pc = "rec_recognize" THEN 1 ELSE 0)

\* C1: at most one recognizer invocation is in flight at any time: no state has
\* two threads (loop threads, or a loop thread and the stop_recording caller)
\* inside model.recognize at once.
C1_AtMostOneRecognizer == InFlight <= 1

\* C2: the recognizer never runs while the buffer mutex is held: a thread that
\* is inside model.recognize (a loop thread, or the stop_recording caller) does
\* not hold the lock.
C2_NoRecognizeUnderLock ==
    /\ ctl_pc = "rec_recognize" => lock # "ctl"
    /\ \A i \in Loops : lpc[i] = "recognize" => lock # "loop"

\* C3: after stop() has returned, SampleBuffer is empty, AccumulationLog is
\* empty, lastText is "" and running is false.
C3_StopLeavesAllCleared ==
    (ctl_pc = "idle" /\ ctl_last = "stop") =>
        (buffer = <<>> /\ accumulated_audio = <<>> /\ last_text = "" /\ ~running)

\* C4: after start() failed to open the device, the session is still Idle:
\* running is false, is_active() is false and no loop thread was launched.
C4_FailedStartStaysIdle ==
    (ctl_pc = "idle" /\ ctl_last = "start_fail") =>
        (~running /\ ~is_active /\ process_thread = 0)

\* C5: after stop_recording() has returned, AccumulationLog is empty and
\* recording is false, whatever the capture callback did meanwhile and whether
\* the recognizer succeeded or raised.
C5_AfterStopRecording ==
    (ctl_pc = "idle" /\ ctl_last = "stop_recording") =>
        (accumulated_audio = <<>> /\ ~recording)

\* C6: a start() that follows a stop() and opens the device leaves the session
\* running and not paused, with an open stream and exactly one loop thread alive.
C6_RestartHasOneLoop ==
    [][(ctl_pc = "start_open" /\ ctl_last = "stop" /\ ctl_last' = "start_ok") =>
          /\ running' /\ ~paused' /\ stream' = "open"
          /\ Cardinality({i \in Loops : lpc'[i] # "dead"}) = 1]_vars

\* a loop thread performs on_result(text) in this step
Notifies(i) == lpc[i] = "deliver" /\ lpc'[i] = "top"

\* a loop thread's recognizer call returns a non-empty text in this step
Recognizes(i) == lpc[i] = "recognize" /\ lpc'[i] # "recognize" /\ last_rec' # <<>>

\* C7 as stated: within a session onResult is never invoked twice with the
\* same text.
C7_OncePerValue ==
    [][\A i \in Loops : Notifies(i) => ltext[i] \notin notified]_vars

\* C7 as amended: a text is forwarded to onResult only if it is non-empty and
\* differs from the last_text the loop compared it with; dedup is against the
\* preceding result, so a text can be notified again later in the session.
C7_DiffersFromLastText ==
    [][\A i \in Loops :
         /\ (lpc'[i] = "deliver" /\ lpc[i] # "deliver") =>
                (lpc[i] = "recognize" /\ ltext'[i] # "" /\ ltext'[i] # last_text)
         /\ (lpc'[i] = "deliver" /\ lpc[i] = "deliver") => ltext'[i] = ltext[i]]_vars

\* C7 witness: a text that was already notified in this session is about to be
\* notified again, after a different text was notified in between.
C7_RepeatAfterChange ==
    \E i \in Loops : /\ lpc[i] = "deliver" /\ ltext[i] \in notified
                      /\ last_text \in notified /\ last_text # ltext[i]

C9_CapacityInvariant == Len(buffer) <= Capacity

\* C9 witness: the ring is full and its oldest samples have been evicted.
C9_FullAfterEviction == Len(buffer) = Capacity /\ Head(buffer) > 1

\* the samples of the chunks ids, in order
SpanSamples(ids) ==
    [n \in 1..(Len(ids) * ChunkSize) |->
        (ids[((n - 1) \div ChunkSize) + 1] - 1) * ChunkSize + ((n - 1) % ChunkSize) + 1]

Finalizing ==
    in_span /\ ctl_pc = "rec_recognize" /\ accumulate_mode /\ accumulated_audio # <<>>

\* C10 as stated: in accumulate mode with a non-empty log, stop_recording()
\* hands the recognizer the in-order concatenation of every chunk appended
\* since the matching start_recording().
C10_WholeSpan == Finalizing => ctl_audio = SpanSamples(span)

\* C10 as amended: ... of every chunk appended since the matching
\* start_recording(), or since the last clear_buffer() called after it; the
\* ring's capacity does not limit it.
C10_SpanSinceClear ==
    Finalizing => ctl_audio = SpanSamples(SubSeq(span, span_cut + 1, Len(span)))

\* C10 witness: the recognizer is handed a span longer than the ring can hold.
C10_LongerThanRing == Finalizing /\ Len(ctl_audio) > Capacity

\* stop_recording() has returned and no other call was made since
Returned == ctl_pc = "idle" /\ ctl_last = "stop_recording"

\* the audio stop_recording() picks: the whole log in accumulate mode when the
\* log is not empty, the ring otherwise
Chosen ==
    IF accumulate_mode /\ accumulated_audio # <<>>
    THEN Concatenate(accumulated_audio) ELSE buffer

C13_FailureLeavesClean ==
    (Returned /\ fin.out = "ERR") =>
        /\ fin.ret = "" /\ accumulated_text = fin.before /\ fin.cb = <<>>
        /\ ~recording /\ accumulated_audio = <<>> /\ lock = "free"

\* loop thread i's recognizer call raises in this step
Fails(i) == lpc[i] = "recognize" /\ lpc'[i] # "recognize" /\ i \in failed'

\* C14: a recognizer failure in the streaming loop is not fatal: the step in
\* which the call raises takes the loop back to the top of the loop (it does
\* not end the thread and delivers no onResult) and leaves running and
\* last_text as they were; the thread ends only when running is false, and its
\* next recognizer call is made on a snapshot newly copied from the buffer.
C14_FailureNonFatal ==
    [][\A i \in Loops :
         /\ Fails(i) => /\ lpc'[i] = "top"
                        /\ running' = running /\ last_text' = last_text
                        /\ ltext' = ltext
         /\ (i \in failed /\ lpc[i] # "dead" /\ lpc'[i] = "dead") => ~running
         /\ (i \in failed /\ lpc[i] = "snap" /\ lpc'[i] = "recognize") =>
                laudio'[i] = buffer]_vars

\* C14 witness: a loop thread whose latest recognizer call raised is inside the
\* recognizer again, on a new snapshot of the buffer, in a running session.
C14_RetryAfterFailure ==
    \E i \in failed : /\ lpc[i] = "recognize" /\ running
                        /\ Len(laudio[i]) >= MinSamples

\* C15: the loop never begins a recognizer invocation and never delivers an
\* onResult notification in a state where paused is true or recording is
\* false.
C15_SuppressedWhilePaused ==
    [][\A i \in Loops :
         ((lpc[i] = "snap" /\ lpc'[i] = "recognize") \/ Notifies(i)) =>
            (~paused /\ recording)]_vars

\* the capture callback receives a chunk in this step
Delivers == cb_pc = "idle" /\ nchunks' = nchunks + 1

\* the capture callback leaves its critical section in this step
Pushes == cb_pc = "push" /\ cb_pc' = "idle"

\* pause() or resume() is called (and returns) in this step
PauseOrResume ==
    ctl_pc = "idle" /\ calls_left' = calls_left - 1 /\ ctl_pc' = "idle"
                    /\ ctl_last' \in {"pause", "resume"}

\* C16: capture continues while paused: a chunk delivered while paused is true
\* and recording is true is pushed, the push puts the chunk's samples at the
\* end of the ring and, in accumulate mode, the chunk at the end of the log,
\* whatever paused is; pause() and resume() set paused and leave the ring, the
\* log, last_text, running and recording unchanged.
C16_CaptureContinuesPaused ==
    [][/\ (Delivers /\ paused /\ recording) => cb_pc' = "push"
       /\ Pushes =>
             /\ SubSeq(buffer', Len(buffer') - ChunkSize + 1, Len(buffer'))
                    = ChunkSamples(nchunks)
             /\ accumulate_mode =>
                    accumulated_audio' = Append(accumulated_audio, ChunkSamples(nchunks))
       /\ PauseOrResume =>
             /\ paused' = (ctl_last' = "pause")
             /\ UNCHANGED <<buffer, accumulated_audio, last_text, running, recording>>
      ]_vars

\* C16 witness: the session is paused and recording, and the callback is about
\* to push a chunk into a ring that already holds one.
C16_PushWhilePaused ==
    paused /\ recording /\ running /\ cb_pc = "push" /\ buffer # <<>>

\* C17 as stated: with vad_threshold = 0, is_speech is true in every reachable
\* state.
C17_AlwaysSpeech == vad_threshold = 0 => is_speech

\* C17 as amended: with vad_threshold = 0, is_speech is true in every state
\* after the first chunk was delivered, whatever the chunks' RMS (it is false
\* from construction until then), and the loop's VAD gate never suppresses a
\* recognition: a snapshot of at least MinSamples samples always goes to the
\* recognizer.
C17_SpeechOnceCaptured ==
    [][vad_threshold = 0 =>
         /\ nchunks' > 0 => is_speech'
         /\ \A i \in Loops :
               (lpc[i] = "snap" /\ lpc'[i] # "snap" /\ Len(buffer) >= MinSamples) =>
                  (lpc'[i] = "recognize" /\ laudio'[i] = buffer)]_vars

\* C17 witness: with the gate off and after silent chunks only, is_speech is
\* true and the loop is recognizing a snapshot.
C17_SilenceRecognized ==
    /\ vad_threshold = 0 /\ nchunks > 0 /\ audio_level = 0 /\ is_speech
    /\ \E i \in Loops : lpc[i] = "recognize" /\ Len(laudio[i]) >= MinSamples

\* C18: results reach onResult in the order their snapshots were taken: no
\* onResult is invoked for a snapshot after the onResult of a snapshot taken
\* later.
C18_DeliveredInSnapshotOrder ==
    \A n \in 1..Len(snaps) : snaps[n].passed => lpc[snaps[n].by] # "deliver"

\* only start() has been called: continuous operation of a started session
Continuous == ctl_last = "start_ok" /\ calls_left = MaxCalls - 1

\* audio samples the engine retains: the ring and every chunk of the log
Retained == Len(buffer) + Len(Concatenate(accumulated_audio))

\* C19: in continuous operation the audio retained by the engine stays within
\* a constant that does not grow with the number of chunks captured: the
\* ring's capacity, and as much again for the log.
C19_RetainedBounded == Continuous => Retained <= 2 * Capacity

\* text is segments joined by single spaces: the segments in order at the odd
\* places, a " " at every even place, nothing before, after or besides
SpaceJoined(text, segments) ==
    LET n == Len(segments)
    IN  /\ Len(text) = IF n = 0 THEN 0 ELSE 2 * n - 1
        /\ \A k \in 1..n : text[2 * k - 1] = segments[k]
        /\ \A k \in 1..(n - 1) : text[2 * k] = " "

\* a history getter is called (and returns) in this step
Gets(op) == ctl_pc = "idle" /\ calls_left' = calls_left - 1 /\ ctl_last' = op

\* C20: get_accumulated_text() returns the history's segments joined by single
\* spaces in append order; get_accumulated_segments() returns the same
\* segments in the same order; neither changes the history, and appending to
\* the returned list does not change it either; clear_accumulated_text()
\* empties the history, so that both getters then return the empty result.
C20_GettersReadHistory ==
    [][/\ Gets("get_accumulated_text") =>
             /\ SpaceJoined(got_text', accumulated_text)
             /\ accumulated_text = <<>> => got_text' = <<>>
             /\ accumulated_text' = accumulated_text
       /\ Gets("get_accumulated_segments") =>
             /\ got_segments'.list = accumulated_text
             /\ accumulated_text' = accumulated_text
       /\ (got_segments.held /\ got_segments'.list # got_segments.list
              /\ calls_left' = calls_left) =>
             accumulated_text' = accumulated_text
       /\ Gets("clear_accumulated_text") => accumulated_text' = <<>>]_vars

\* C20 witness: the caller has appended to the list it got from a history of
\* two segments and has read the text: the history still holds exactly the
\* two segments and the text is their join.
C20_CopyMutatedHistoryIntact ==
    /\ ctl_last = "get_accumulated_text" /\ Len(accumulated_text) = 2
    /\ got_segments.held /\ Len(got_segments.list) = 3
    /\ got_text = <<accumulated_text[1], " ", accumulated_text[2]>>
\* C21: get_audio_level() is in [0, 1] (0..1000 thousandths) in every state,
\* whatever the amplitudes of the chunks received: the RMS is never negative
\* and a level above 1.0 is returned as 1.0.
C21_LevelInUnitRange == get_audio_level \in 0..1000

\* a chunk louder than 1.0 was captured and the getter returns 1.0
C21_LoudChunkClamped == nchunks > 0 /\ audio_level > 1000 /\ get_audio_level = 1000

\* C22: the capture callback never waits on the mutex while a recognizer
\* invocation runs: no state has a callback at its critical section's entry
\* with the mutex held by a thread that is inside model.recognize.
C22_CallbackNeverWaitsOnRecognizer ==
    ~(cb_pc = "push" /\ lock = "ctl" /\ ctl_pc = "rec_recognize")

\* C23: the audio that stop_recording() recognizes holds no sample captured
\* before the matching start_recording() was called: every sample handed to
\* the recognizer belongs to a chunk delivered after that call.
C23_SpanOwnsFreshAudio ==
    (ctl_pc = "rec_recognize" /\ span_from >= 0) =>
        \A n \in 1..Len(ctl_audio) : ctl_audio[n] > span_from * ChunkSize

\* the last n items of the sequence s
Last(s, n) == SubSeq(s, Len(s) - n + 1, Len(s))

\* C24: whenever the mutex is free the buffer holds exactly the last
\* min(n, Capacity) of the n samples pushed since the last clear, in capture
\* order: a push past the capacity evicts the oldest samples only.
C24_FifoEviction ==
    lock = "free" =>
        buffer = Last(pushed, IF Len(pushed) < Capacity THEN Len(pushed) ELSE Capacity)

\* more samples were pushed since the last clear than the buffer holds: the
\* oldest are gone and the newest is the last sample captured
C24_Evicted ==
    /\ lock = "free" /\ Len(pushed) > Capacity /\ Len(buffer) = Capacity
    /\ buffer[1] # pushed[1]
    /\ buffer[Capacity] = nchunks * ChunkSize

\* C25: the streaming loop never invokes the recognizer on a snapshot shorter
\* than min_samples, so no recognizer call of the loop happens while the
\* chunks delivered so far hold fewer samples than that, however the length
\* check interleaves with the callbacks, clear_buffer() and start_recording().
C25_NoShortSnapshot ==
    \A i \in Loops : lpc[i] = "recognize" =>
        /\ Len(laudio[i]) >= min_samples
        /\ nchunks * ChunkSize >= min_samples

\* the loop recognizes a long enough snapshot, taken after a chunk that left
\* the buffer too short, while a clear has since emptied the buffer
C25_SnapshotOutlivesClear ==
    /\ ChunkSize < min_samples
    /\ \E i \in Loops : lpc[i] = "recognize" /\ Len(laudio[i]) >= min_samples
    /\ buffer = <<>> /\ ctl_last \in {"clear_buffer", "start_recording"}

\* the session is running, not paused, recording, and the VAD gate is off
Streaming == running /\ ~paused /\ recording /\ vad_threshold = 0

Enough == Len(buffer) >= min_samples

\* C26: in a session that stays running, unpaused and recording with the VAD
\* gate off, once the buffer holds at least min_samples samples a loop thread
\* eventually invokes the recognizer, when the loop threads are scheduled fairly
\* and recognizer calls return; nothing is promised once the session is paused,
\* stopped, not recording or the buffer is cleared.
C26_EventuallyRecognizes ==
    (Streaming /\ Enough) ~>
        ((\E i \in Loops : lpc[i] = "recognize") \/ ~(Streaming /\ Enough))

\* the buffer reached min_samples with the second chunk and the loop is in the
\* recognizer on it
C26_RecognizingFullBuffer ==
    /\ Streaming /\ Enough /\ nchunks >= 2 /\ ChunkSize < min_samples
    /\ \E i \in Loops : lpc[i] = "recognize" /\ laudio[i] = buffer

\* loop thread i ends the part of its iteration that reads the buffer and
\* is_speech
Gates(i) == lpc[i] = "snap" /\ lpc'[i] # "snap"

\* C27: with the VAD gate on, an iteration that finds is_speech false goes back
\* to the top of the loop without a recognizer call and changes neither the
\* buffer, the log nor last_text, also when the buffer holds min_samples or more.
C27_SilenceGated ==
    [][\A i \in Loops :
          (Gates(i) /\ vad_threshold > 0 /\ ~is_speech) =>
              /\ lpc'[i] = "top" /\ laudio'[i] = <<>>
              /\ UNCHANGED <<buffer, accumulated_audio, last_text>>]_vars

\* the gate is on, the last chunk captured was silent, the buffer is long
\* enough and a loop thread is at the point where it reads the buffer and
\* is_speech
C27_SilentWithFullBuffer ==
    /\ vad_threshold > 0 /\ ~is_speech /\ nchunks = 2 /\ audio_level = 0
    /\ Len(buffer) >= min_samples /\ lock = "free"
    /\ \E i \in Loops : lpc[i] = "snap" /\ laudio[i] = <<>>

\* C28: once stop() has set running to false, every loop thread alive at that
\* time eventually terminates, when the loop threads are scheduled fairly and
\* recognizer calls return, whatever the controller calls next.
C28_LoopTerminatesAfterStop ==
    \A i \in Loops : (~running /\ lpc[i] # "dead") ~> (lpc[i] = "dead")

\* C29: a recognized text goes to on_result only if it is non-empty and
\* differs from last_text when compared; the iteration that forwards it writes
\* it to last_text first, so on_result never gets an empty string and its
\* argument is the value that iteration wrote to last_text.
C29_ForwardsWhatItWrote ==
    [][\A i \in Loops :
          /\ (lpc[i] = "recognize" /\ lpc'[i] = "deliver") =>
                 (ltext'[i] \in Texts /\ ltext'[i] # last_text)
          /\ Notifies(i) =>
                 /\ ltext[i] \in Texts
                 /\ last_text' = ltext[i]
                 /\ notified' = notified \cup {ltext[i]}
          /\ (lpc[i] = "recognize" /\ lpc'[i] = "top") =>
                 (notified' = notified /\ last_text' = last_text)]_vars

\* both texts were forwarded in turn: last_text is the text forwarded last
C29_BothForwarded ==
    /\ notified = Texts /\ last_text \in Texts
    /\ \A i \in Loops : lpc[i] \in {"top", "dead"}

\* C30: a chunk delivered while recording is false changes neither the buffer
\* nor the log and the callback ends without the mutex, having updated the
\* level and is_speech; with recording true the callback goes on to one
\* critical section that pushes the samples to the buffer and, in accumulate
\* mode only, appends the chunk to the log.
C30_CallbackFrame ==
    [][/\ Delivers =>
            /\ audio_level' \in Levels /\ is_speech' = Vad(audio_level')
            /\ cb_pc' = (IF recording THEN "push" ELSE "idle")
            /\ UNCHANGED <<buffer, accumulated_audio, lock>>
       /\ Pushes =>
            /\ lock = "free" /\ lock' = "free"
            /\ buffer' = Extend(buffer, ChunkSamples(nchunks))
            /\ accumulated_audio' = (IF accumulate_mode
                                     THEN Append(accumulated_audio, ChunkSamples(nchunks))
                                     ELSE accumulated_audio)
            /\ UNCHANGED level]_vars

\* the second chunk came with recording false while stop_recording() held the
\* mutex or was about to take it: the callback has ended, the level is that of
\* the loud chunk and the stores hold the first chunk only
C30_SkippedWhileLocked ==
    /\ ~recording /\ lock = "ctl" /\ cb_pc = "idle" /\ nchunks = 2
    /\ audio_level > 0 /\ is_speech
    /\ buffer = ChunkSamples(1)
    /\ accumulate_mode /\ accumulated_audio = <<ChunkSamples(1)>>

\* C31: in the push-to-talk driver, from the return of asr.start() to the
\* first start_recording() the engine is armed but not recording: recording is
\* false, the buffer and the log stay empty and no loop thread is in the
\* recognizer.
C31_ArmedNotRecording ==
    ctl_last = "start_ok" =>
        /\ ~recording
        /\ buffer = <<>> /\ accumulated_audio = <<>>
        /\ \A i \in Loops : lpc[i] # "recognize"

\* the controller calls start_recording(), stop_recording(), stop() in this step
StartsRecording ==
    calls_left' < calls_left /\ ctl_pc' = "idle" /\ ctl_last' = "start_recording"

StopsRecording == ctl_pc = "idle" /\ ctl_pc' = "rec_lock"

Stops == ctl_pc = "idle" /\ ctl_pc' = "stop_close"

\* C32: the driver's start_recording() and stop_recording() calls alternate,
\* beginning with start_recording(): a start_recording() follows asr.start() or
\* a stop_recording(), a stop_recording() follows a start_recording(), and
\* asr.stop() is never called with a start_recording() left unmatched, also
\* when the loop ends by ESC or an interrupt.
C32_CallsAlternate ==
    [][/\ StartsRecording => ctl_last \in {"start_ok", "stop_recording"}
       /\ StopsRecording => ctl_last = "start_recording"
       /\ Stops => ctl_last # "start_recording"]_vars

\* C33: from the return of stop() to the next call, last_text stays empty and
\* no on_result notification is delivered: a recognition that was in flight
\* when stop() was called neither writes last_text nor notifies afterwards.
C33_QuietAfterStop ==
    [][(ctl_pc = "idle" /\ ctl_last = "stop") =>
          /\ last_text = "" /\ last_text' = ""
          /\ \A i \in Loops : ~Notifies(i)]_vars

\* C34: when recognizer calls and callbacks return, no thread waits forever
\* on the mutex: the only holder across steps is stop_recording() inside its
\* recognizer call, which asks for no mutex it holds; every hold ends, also
\* when the recognizer raises, and the callback, the loop and the controller
\* each get the mutex they wait for.
C34_NoThreadWaitsForever ==
    /\ [](lock = "ctl" => ctl_pc = "rec_recognize")
    /\ (lock = "ctl") ~> (lock = "free")
    /\ (cb_pc = "push") ~> (cb_pc = "idle")
    /\ \A i \in Loops : (lpc[i] = "snap") ~> (lpc[i] # "snap")
    /\ (ctl_pc \in {"rec_lock", "stop_clear"}) ~> (ctl_pc \notin {"rec_lock", "stop_clear"})

\* stop_recording() holds the mutex inside the recognizer while the callback
\* and a loop thread both wait for it
C34_TwoThreadsWaiting ==
    /\ lock = "ctl" /\ ctl_pc = "rec_recognize"
    /\ cb_pc = "push"
    /\ \E i \in Loops : lpc[i] = "snap"

\* a loop thread copies the buffer for the recognizer
Snapshots(i) == lpc[i] = "snap" /\ lpc'[i] = "recognize"

\* C35 as stated: every snapshot handed to the recognizer consists of whole
\* chunks, from the first sample of a chunk to the last sample of a chunk.
C35_WholeChunks ==
    \A i \in Loops : lpc[i] = "recognize" =>
        /\ (laudio[i][1] - 1) % ChunkSize = 0
        /\ laudio[i][Len(laudio[i])] % ChunkSize = 0

\* C35: every snapshot is the buffer as it stood at one instant under the
\* mutex: the newest samples, in capture order, of the chunks appended since
\* the last clear, at most Capacity of them, ending with the last sample of a
\* chunk; only its oldest chunk can be cut, by eviction.
C35_ConsistentSnapshot ==
    [][\A i \in Loops : Snapshots(i) =>
          /\ laudio'[i] = buffer
          /\ laudio'[i] = Last(pushed, IF Len(pushed) < Capacity THEN Len(pushed) ELSE Capacity)
          /\ laudio'[i][Len(laudio'[i])] % ChunkSize = 0]_vars

\* a snapshot of a full buffer whose oldest chunk lost its first sample to
\* eviction
C35_SnapshotCutByEviction ==
    \E i \in Loops :
        /\ lpc[i] = "recognize"
        /\ Len(laudio[i]) = Capacity
        /\ (laudio[i][1] - 1) % ChunkSize # 0

\* start() goes on to open a capture stream
OpensStream == ctl_pc = "idle" /\ ctl_pc' = "start_open"

\* start() is called while running and returns at once
StartsWhileRunning ==
    /\ ctl_pc = "idle" /\ running /\ calls_left' < calls_left
    /\ ctl_pc' = "idle" /\ ctl_last' = "start_noop"

\* C36: start() called while running opens no stream and launches no loop,
\* and leaves running, paused, recording, the buffer, the log and last_text
\* unchanged.
C36_StartWhileRunningIsNoop ==
    [][/\ OpensStream => ~running
       /\ StartsWhileRunning =>
              UNCHANGED <<running, paused, recording, buffer, accumulated_audio,
                          last_text, stream, process_thread, lpc>>]_vars

\* start() has returned at once on a session that is capturing: the stream is
\* open, a loop is alive, audio is buffered and the session is still paused
C36_NoopOnLiveSession ==
    /\ ctl_pc = "idle" /\ ctl_last = "start_noop"
    /\ stream = "open" /\ process_thread # 0 /\ lpc[process_thread] # "dead"
    /\ running /\ paused /\ buffer # <<>>

\* a loop thread's recognizer call returns the first text since last_text was
\* reset
FirstSinceReset(i) ==
    lpc[i] = "recognize" /\ lpc'[i] # "recognize" /\ forgot /\ ~forgot'

\* C37: start_recording(), clear_buffer() and stop() set last_text to "", and
\* the first non-empty streaming result computed after the reset goes to
\* on_result, whatever was delivered before the reset.
C37_ResetForgetsLastText ==
    [][/\ (~forgot /\ forgot') => last_text' = ""
       /\ \A i \in Loops : FirstSinceReset(i) => lpc'[i] = "deliver"]_vars

\* stop_recording() returns, appending one non-empty text
AppendsSegment ==
    /\ ctl_pc = "rec_finish" /\ ctl_pc' = "idle"
    /\ \E t \in Texts : accumulated_text' = Append(accumulated_text, t)

\* clear_accumulated_text() empties the history
ClearsSegments ==
    /\ ctl_pc = "idle" /\ ctl_pc' = "idle" /\ ctl_last' = "clear_accumulated_text"
    /\ accumulated_text' = <<>>

\* C38: the segment history changes only when stop_recording() appends one
\* non-empty text at its end or clear_accumulated_text() empties it; every
\* other call, the callback and the loop leave it as it is.
C38_SegmentHistoryFrame ==
    [][accumulated_text' # accumulated_text => (AppendsSegment \/ ClearsSegments)]_vars

\* a segment appended before the session was started again is still in the
\* history after start() returned
C38_SegmentOutlivesSession ==
    /\ ctl_pc = "idle" /\ ctl_last = "start_ok"
    /\ accumulated_text # <<>>

\* stop_recording() takes the mutex and finds audio to recognize
FindsAudio ==
    /\ ctl_pc = "rec_lock" /\ ctl_pc' # "rec_lock"
    /\ (accumulate_mode /\ accumulated_audio # <<>>) \/ buffer # <<>>

\* C39: with a minimum above the buffer capacity the streaming loop never
\* calls the recognizer, whatever was captured, while stop_recording() still
\* recognizes the log (accumulate mode, log not empty) or else the buffer.
C39_StarvedLoop ==
    [][Capacity < min_samples =>
          /\ \A i \in Loops : lpc'[i] # "recognize"
          /\ FindsAudio =>
                 /\ ctl_pc' = "rec_recognize"
                 /\ ctl_audio' = IF accumulate_mode /\ accumulated_audio # <<>>
                                  THEN Concatenate(accumulated_audio) ELSE buffer]_vars

\* the buffer is full, which the minimum still exceeds, a loop thread is
\* alive and idle, and stop_recording() is recognizing the full buffer
C39_FullBufferOnlyFinalized ==
    /\ Capacity < min_samples /\ ~accumulate_mode
    /\ Len(buffer) = Capacity
    /\ ctl_pc = "rec_recognize" /\ ctl_audio = buffer
    /\ \E i \in Loops : lpc[i] = "top"

\* _start_recording() returns after a start that failed
FailedStartReturns == gui_pc = "error_stop" /\ gui_pc' = "ready"

\* C40: when starting the engine fails, _start_recording() returns with
\* is_recording false, the worker stopped and released, and a status other
\* than "recording".
C40_FailedStartEndsIdle ==
    [][FailedStartReturns =>
          /\ ~gui_is_recording'
          /\ asr_worker' = "none" /\ ~worker_running'
          /\ status' # "recording"]_vars

====
